---- MODULE Spec2Model ----
(***************************************************************************)
(* Model of caddy-docker-upstreams (src/upstreams.go): the Upstreams       *)
(* provider (Provision, keepUpdated, GetUpstreams), the label matcher      *)
(* (match) and the address resolver with its cache (toUpstream).           *)
(*                                                                         *)
(* Strings that the code takes apart are modelled by their parts: a host   *)
(* name is the sequence of its dot-separated labels, a path the sequence   *)
(* of its segments, a dial address the pair (host part, port part) that    *)
(* net.JoinHostPort joins with ":".                                        *)
(***************************************************************************)
EXTENDS Integers, Sequences, FiniteSets, TLC

\* ------------------------------------------------------------------ labels

LabelEnable == "com.caddyserver.http.enable"
LabelMatchHost == "com.caddyserver.http.matchers.host"
LabelMatchPath == "com.caddyserver.http.matchers.path"
LabelUpstreamPort == "com.caddyserver.http.upstream.port"
\* A label key no matcher is registered for.
LabelOther == "com.example.other"

\* The empty map (no labels, no networks).
EmptyMap == [k \in {} |-> ""]

HasKey(m, k) == k \in DOMAIN m

\* ------------------------------------------------------- request matchers

\* caddyhttp.MatchHost{value}.Match(r): the pattern and the request's host
\* are split at the dots; they match when they have the same number of
\* labels and every pattern label is "*" or equals the host's label.
MatchHost(value, r) ==
    /\ Len(value) = Len(r.Host)
    /\ \A i \in 1..Len(value) : value[i] = "*" \/ value[i] = r.Host[i]

\* caddyhttp.MatchPath{value}.Match(r): "*" matches every path, a pattern
\* ending in "*" is a prefix match, any other pattern matches exactly.
MatchPath(value, r) ==
    IF value = <<"*">> THEN TRUE
    ELSE IF Len(value) > 0 /\ value[Len(value)] = "*"
         THEN /\ Len(r.Path) >= Len(value) - 1
              /\ SubSeq(r.Path, 1, Len(value) - 1) = SubSeq(value, 1, Len(value) - 1)
         ELSE r.Path = value

\* The registry `matchers`: its keys, in one iteration order of the map.
matcherKeys == <<LabelMatchHost, LabelMatchPath>>

\* matchers[key](value).Match(r)
matcherAccepts(key, value, r) ==
    IF key = LabelMatchHost THEN MatchHost(value, r) ELSE MatchPath(value, r)

\* The loop of match over the registry, from index i of the key order `keys`.
RECURSIVE matchLoop(_, _, _, _)
matchLoop(r, labels, keys, i) ==
    IF i > Len(keys) THEN TRUE
    ELSE IF ~HasKey(labels, keys[i]) THEN matchLoop(r, labels, keys, i + 1)
    ELSE IF ~matcherAccepts(keys[i], labels[keys[i]], r) THEN FALSE
    ELSE matchLoop(r, labels, keys, i + 1)

\* Mutant of match: a matcher kind whose label is absent rejects the request.
match_MissingRejects(r, container) ==
    /\ HasKey(container.Labels, LabelEnable)
    /\ container.Labels[LabelEnable] = "true"
    /\ \A i \in 1..Len(matcherKeys) :
          /\ HasKey(container.Labels, matcherKeys[i])
          /\ matcherAccepts(matcherKeys[i], container.Labels[matcherKeys[i]], r)

\* Mutant of match: the enable label only has to be present.
match_NoEnableValue(r, container) ==
    /\ HasKey(container.Labels, LabelEnable)
    /\ matchLoop(r, container.Labels, matcherKeys, 1)

match(r, container) ==
    IF ~HasKey(container.Labels, LabelEnable) \/ container.Labels[LabelEnable] # "true"
    THEN FALSE
    ELSE matchLoop(r, container.Labels, matcherKeys, 1)

\* --------------------------------------------------------------- resolver

ErrPort == "unable to get port from container labels"
ErrAddress == "unable to get ip address from container networks"

\* net.JoinHostPort(host, port): the dial address "host:port".
JoinHostPort(host, port) == [host |-> host, port |-> port]

\* What a call of toUpstream returns: an upstream or an error.
Ok(dial) == [err |-> "", dial |-> dial]
Fail(e) == [err |-> e, dial |-> JoinHostPort("", "")]

\* toUpstream after a cache miss, up to the store: the error it returns, or
\* "" when it goes on to create and store an upstream.
missError(container) ==
    IF ~HasKey(container.Labels, LabelUpstreamPort) THEN ErrPort
    ELSE IF DOMAIN container.Networks = {} THEN ErrAddress
    ELSE ""

\* The dial addresses the loop over container.NetworkSettings.Networks can
\* build: the loop returns in its first iteration, and the iteration order
\* of a Go map is not fixed, so any attachment can be the one it uses.
missDials(container) ==
    { JoinHostPort(container.Networks[n], container.Labels[LabelUpstreamPort]) :
        n \in DOMAIN container.Networks }

\* ----------------------------------------------------------------- bounds

\* Calls of Provision on one provider (the second and later ones only under
\* ReprovSpec), hence also the watchers that can be launched.
MaxProvisions == 2
\* Changes of the runtime's container set in one behaviour.
MaxChanges == 2
\* Concurrent GetUpstreams calls.
MaxReaders == 2

\* ------------------------------------------------------ the docker runtime

IDs == {"c1", "c2"}
\* The order in which a listing returns the containers.
IDSeq == <<"c1", "c2">>

Bridge(ip) == "bridge" :> ip

\* The containers the runtime may run, by the name of their configuration:
\* the labels a container is created with, and the networks it is attached
\* to. "web", "web6", "noip" and "multi" are one container (the same labels)
\* with different network settings.
ConfigLabels(cfg) ==
    CASE cfg \in {"web", "web6", "noip", "multi"}
                        -> (LabelEnable :> "true") @@ (LabelUpstreamPort :> "8080")
      [] cfg = "host"   -> (LabelEnable :> "true") @@ (LabelUpstreamPort :> "9090")
                           @@ (LabelMatchHost :> <<"example", "com">>)
      [] cfg = "off"    -> (LabelEnable :> "false") @@ (LabelUpstreamPort :> "8080")
      [] cfg = "noport" -> (LabelEnable :> "true")
      [] OTHER          -> EmptyMap

ConfigNetworks(cfg) ==
    CASE cfg \in {"web6", "host"} -> Bridge("10.0.0.6")
      [] cfg = "noip"   -> Bridge("")
      [] cfg = "multi"  -> Bridge("10.0.0.5") @@ ("overlay" :> "10.0.0.6")
      [] OTHER          -> Bridge("10.0.0.5")

Configs == {"web", "web6", "noip", "multi", "host", "off", "noport", "plain"}
\* No container of this id was created yet; the container was removed.
NoContainer == "none"
Removed == "removed"

\* types.Container, projected on the fields the code reads.
Container(id, cfg) ==
    [ID |-> id, Labels |-> ConfigLabels(cfg), Networks |-> ConfigNetworks(cfg)]

\* The zero types.Container (a slot of a slice past the listing's result).
ZeroContainer == [ID |-> "", Labels |-> EmptyMap, Networks |-> EmptyMap]

\* cli.ContainerList with the filter label=LabelEnable on the runtime state d:
\* the containers that carry the label, whatever its value.
RECURSIVE ListFrom(_, _)
ListFrom(d, i) ==
    IF i > Len(IDSeq) THEN <<>>
    ELSE LET id == IDSeq[i]
             rest == ListFrom(d, i + 1)
         IN IF d[id] \in Configs /\ HasKey(ConfigLabels(d[id]), LabelEnable)
            THEN <<Container(id, d[id])>> \o rest
            ELSE rest

ContainerList(d) == ListFrom(d, 1)

\* The requests of the system specifications.
Requests ==
    { [Host |-> h, Path |-> <<"api">>] : h \in {<<"example", "com">>, <<"other", "com">>} }

\* ------------------------------------------------------------------ state

VARIABLES
    docker,       \* the runtime: container id -> configuration, or NoContainer
    changes,      \* changes of the runtime so far
    ctxCanceled,  \* the provisioning context is canceled
    containers,   \* u.containers: the slice header [arr, len]
    addresses,    \* the package's cache: container id -> dial address
    ppc,          \* where the call of Provision stands
    pList,        \* Provision's local `containers`
    provisions,   \* calls of Provision that returned nil
    wpc,          \* where each watcher (keepUpdated) stands
    sub,          \* each watcher's event subscription
    wList,        \* each watcher's local `containers`
    rd,           \* each GetUpstreams call
    unit,         \* the last direct call of match or toUpstream (UnitSpec)
    latest        \* history: the result of the last listing call that succeeded

vars == <<docker, changes, ctxCanceled, containers, addresses, ppc, pList,
          provisions, wpc, sub, wList, rd, unit, latest>>

Watchers == 1..MaxProvisions
Readers == 1..MaxReaders

NilSlice == [arr |-> <<>>, len |-> 0]
Slice(list) == [arr |-> list, len |-> Len(list)]
NoSub == [open |-> FALSE, msgs |-> 0, err |-> "none"]
IdleReader == [pc |-> "idle", req |-> [Host |-> <<>>, Path |-> <<>>],
               hdr |-> NilSlice, i |-> 0, out |-> <<>>]
NoCall == [op |-> "none", c |-> ZeroContainer, r |-> [Host |-> <<>>, Path |-> <<>>],
           res |-> FALSE, up |-> Fail("")]

Init ==
    /\ docker = [id \in IDs |-> NoContainer]
    /\ changes = 0
    /\ ctxCanceled = FALSE
    /\ containers = NilSlice
    /\ addresses = EmptyMap
    /\ ppc = "idle"
    /\ pList = <<>>
    /\ provisions = 0
    /\ wpc = [w \in Watchers |-> "none"]
    /\ sub = [w \in Watchers |-> NoSub]
    /\ wList = [w \in Watchers |-> <<>>]
    /\ rd = [r \in Readers |-> IdleReader]
    /\ unit = NoCall
    /\ latest = <<>>

\* ------------------------------------------------------------ environment

\* The runtime creates a container (under an id never used before), restarts
\* one with other network settings (the id and the labels stay), or removes
\* one (for good); every open event subscription is sent a container event.
DockerChange(id, cfg) ==
    /\ changes < MaxChanges
    /\ \/ docker[id] = NoContainer /\ cfg \in Configs
       \/ /\ docker[id] \in Configs /\ cfg \in Configs \ {docker[id]}
          /\ ConfigLabels(cfg) = ConfigLabels(docker[id])
       \/ docker[id] \in Configs /\ cfg = Removed
    /\ docker' = [docker EXCEPT ![id] = cfg]
    /\ changes' = changes + 1
    /\ sub' = [w \in Watchers |->
                 IF sub[w].open THEN [sub[w] EXCEPT !.msgs = @ + 1] ELSE sub[w]]
    /\ UNCHANGED <<ctxCanceled, containers, addresses, ppc, pList, provisions,
                   wpc, wList, rd, unit, latest>>

\* The event stream of watcher w breaks: the subscription delivers an error
\* that is not a cancellation, and the events not yet received are lost.
TransportError(w) ==
    /\ sub[w].open
    /\ sub' = [sub EXCEPT ![w] = [open |-> FALSE, msgs |-> 0, err |-> "transport"]]
    /\ UNCHANGED <<docker, changes, ctxCanceled, containers, addresses, ppc,
                   pList, provisions, wpc, wList, rd, unit, latest>>

\* The provisioning context is canceled: every open subscription ends with
\* an error, context.Canceled or an error of the broken request.
Cancel ==
    /\ ~ctxCanceled
    /\ provisions > 0
    /\ ctxCanceled' = TRUE
    /\ \E e \in {"canceled", "transport"} :
          sub' = [w \in Watchers |->
                    IF sub[w].open
                    THEN [sub[w] EXCEPT !.open = FALSE, !.err = e]
                    ELSE sub[w]]
    /\ UNCHANGED <<docker, changes, containers, addresses, ppc, pList,
                   provisions, wpc, wList, rd, unit, latest>>

\* -------------------------------------------------------------- Provision

\* The host calls Provision (once per provider instance).
ProvisionCall ==
    /\ ppc = "idle"
    /\ provisions = 0
    /\ ppc' = "client"
    /\ UNCHANGED <<docker, changes, ctxCanceled, containers, addresses, pList,
                   provisions, wpc, sub, wList, rd, unit, latest>>

\* A further call of Provision on the same provider.
ProvisionAgain ==
    /\ ppc = "ok"
    /\ provisions < MaxProvisions
    /\ ppc' = "client"
    /\ UNCHANGED <<docker, changes, ctxCanceled, containers, addresses, pList,
                   provisions, wpc, sub, wList, rd, unit, latest>>

\* client.NewClientWithOpts, then cli.Ping: each returns or fails.
ProvisionConnect ==
    /\ ppc \in {"client", "ping"}
    /\ \/ /\ ppc = "client" \/ ~ctxCanceled
          /\ ppc' = (IF ppc = "client" THEN "ping" ELSE "list")
       \/ ppc' = "err"
    /\ UNCHANGED <<docker, changes, ctxCanceled, containers, addresses, pList,
                   provisions, wpc, sub, wList, rd, unit, latest>>

\* The initial cli.ContainerList.
ProvisionList ==
    /\ ppc = "list"
    /\ \/ /\ ~ctxCanceled
          /\ pList' = ContainerList(docker)
          /\ latest' = ContainerList(docker)
          /\ ppc' = "store"
       \/ /\ ppc' = "err"
          /\ UNCHANGED <<pList, latest>>
    /\ UNCHANGED <<docker, changes, ctxCanceled, containers, addresses,
                   provisions, wpc, sub, wList, rd, unit>>

\* u.containers = containers, without the lock: the words of the slice
\* header are written one after the other, in an order the build chooses.
ProvisionStoreFirst ==
    /\ ppc = "store"
    /\ \/ /\ containers' = [containers EXCEPT !.arr = pList]
          /\ ppc' = "storeLen"
       \/ /\ containers' = [containers EXCEPT !.len = Len(pList)]
          /\ ppc' = "storeArr"
    /\ UNCHANGED <<docker, changes, ctxCanceled, addresses, pList,
                   provisions, wpc, sub, wList, rd, unit, latest>>

\* Mutant of ProvisionStoreSecond: the rest of the store is left out.
ProvisionStoreSecond_Forget ==
    /\ ppc \in {"storeLen", "storeArr"}
    /\ ppc' = "go"
    /\ UNCHANGED <<docker, changes, ctxCanceled, containers, addresses, pList,
                   provisions, wpc, sub, wList, rd, unit, latest>>

\* The second word of the slice header is written.
ProvisionStoreSecond ==
    /\ ppc \in {"storeLen", "storeArr"}
    /\ containers' = (IF ppc = "storeLen"
                      THEN [containers EXCEPT !.len = Len(pList)]
                      ELSE [containers EXCEPT !.arr = pList])
    /\ ppc' = "go"
    /\ UNCHANGED <<docker, changes, ctxCanceled, addresses, pList,
                   provisions, wpc, sub, wList, rd, unit, latest>>

\* Mutant of NextWatcher: a provider has one watcher, which a later call of
\* Provision starts again.
NextWatcher_Single == CHOOSE w \in 1..MaxProvisions : \A v \in 1..MaxProvisions : w <= v

\* The watcher the next successful call of Provision launches.
NextWatcher == provisions + 1

\* go u.keepUpdated(ctx, cli); return nil
ProvisionLaunch ==
    /\ ppc = "go"
    /\ wpc' = [wpc EXCEPT ![NextWatcher] = "subscribe"]
    /\ provisions' = provisions + 1
    /\ ppc' = "ok"
    /\ UNCHANGED <<docker, changes, ctxCanceled, containers, addresses, pList,
                   sub, wList, rd, unit, latest>>

\* ------------------------------------------------------------ u.mu, locks

\* A watcher is inside u.mu.Lock() ... u.mu.Unlock().
WriterHolds == \E w \in Watchers : wpc[w] \in {"storeLen", "storeArr"}
\* A watcher has called u.mu.Lock() and waits for the readers to leave.
WriterWaits == \E w \in Watchers : wpc[w] = "lockWait"
\* A GetUpstreams call holds u.mu.RLock().
ReaderHolds == \E r \in Readers : rd[r].pc \in {"iter", "store"}

\* Mutant of CanRLock: RLock does not wait for the writer.
CanRLock_NoWait == TRUE

\* u.mu.RLock() returns: no writer holds the lock or waits for it.
\* Mutant of CanRLock: a waiting writer does not hold new readers back.
CanRLock_NoPreference == ~WriterHolds

CanRLock == ~WriterHolds /\ ~WriterWaits

\* Mutant of CanLock: Lock does not wait for the readers to leave.
CanLock_NoWait == ~WriterHolds

\* u.mu.Lock() returns: no reader and no other writer holds the lock.
CanLock == ~WriterHolds /\ ~ReaderHolds

\* ------------------------------------------------------------ keepUpdated

\* cli.Events(ctx, ...): a fresh subscription; with a canceled context it
\* delivers context.Canceled at once.
Subscribe(w) ==
    /\ wpc[w] = "subscribe"
    /\ sub' = [sub EXCEPT ![w] =
                 IF ctxCanceled
                 THEN [open |-> FALSE, msgs |-> 0, err |-> "canceled"]
                 ELSE [open |-> TRUE, msgs |-> 0, err |-> "none"]]
    /\ wpc' = [wpc EXCEPT ![w] = "select"]
    /\ UNCHANGED <<docker, changes, ctxCanceled, containers, addresses, ppc,
                   pList, provisions, wList, rd, unit, latest>>

\* case <-messages
ReceiveMessage(w) ==
    /\ wpc[w] = "select"
    /\ sub[w].msgs > 0
    /\ sub' = [sub EXCEPT ![w].msgs = @ - 1]
    /\ wpc' = [wpc EXCEPT ![w] = "list"]
    /\ UNCHANGED <<docker, changes, ctxCanceled, containers, addresses, ppc,
                   pList, provisions, wList, rd, unit, latest>>

\* case err := <-errs: return on context.Canceled, else leave the select loop.
\* Mutant of ReceiveError: every error of the subscription ends the watcher.
ReceiveError_AnyErrorReturns(w) ==
    /\ wpc[w] = "select"
    /\ sub[w].err # "none"
    /\ wpc' = [wpc EXCEPT ![w] = "done"]
    /\ sub' = [sub EXCEPT ![w].err = "none"]
    /\ UNCHANGED <<docker, changes, ctxCanceled, containers, addresses, ppc,
                   pList, provisions, wList, rd, unit, latest>>

\* Mutant of ReceiveError: context.Canceled is handled like any other error.
ReceiveError_NeverReturns(w) ==
    /\ wpc[w] = "select"
    /\ sub[w].err # "none"
    /\ wpc' = [wpc EXCEPT ![w] = "backoff"]
    /\ sub' = [sub EXCEPT ![w].err = "none"]
    /\ UNCHANGED <<docker, changes, ctxCanceled, containers, addresses, ppc,
                   pList, provisions, wList, rd, unit, latest>>

ReceiveError(w) ==
    /\ wpc[w] = "select"
    /\ sub[w].err # "none"
    /\ wpc' = [wpc EXCEPT ![w] = IF sub[w].err = "canceled" THEN "done" ELSE "backoff"]
    /\ sub' = [sub EXCEPT ![w].err = "none"]
    /\ UNCHANGED <<docker, changes, ctxCanceled, containers, addresses, ppc,
                   pList, provisions, wList, rd, unit, latest>>

\* cli.ContainerList after an event returns the listing or an error.
Relist(w) ==
    /\ wpc[w] = "list"
    /\ \/ /\ ~ctxCanceled
          /\ wList' = [wList EXCEPT ![w] = ContainerList(docker)]
          /\ latest' = ContainerList(docker)
          /\ wpc' = [wpc EXCEPT ![w] = "lock"]
       \/ /\ wpc' = [wpc EXCEPT ![w] = "listFailed"]
          /\ UNCHANGED <<wList, latest>>
    /\ UNCHANGED <<docker, changes, ctxCanceled, containers, addresses, ppc,
                   pList, provisions, sub, rd, unit>>

\* Mutant of RelistFailed: a failed listing leaves the select loop.
RelistFailed_Break(w) ==
    /\ wpc[w] = "listFailed"
    /\ wpc' = [wpc EXCEPT ![w] = "backoff"]
    /\ UNCHANGED <<docker, changes, ctxCanceled, containers, addresses, ppc,
                   pList, provisions, sub, wList, rd, unit, latest>>

\* if err != nil: the error is logged and the select loop continues.
RelistFailed(w) ==
    /\ wpc[w] = "listFailed"
    /\ wpc' = [wpc EXCEPT ![w] = "select"]
    /\ UNCHANGED <<docker, changes, ctxCanceled, containers, addresses, ppc,
                   pList, provisions, sub, wList, rd, unit, latest>>

\* u.mu.Lock() is called.
LockCall(w) ==
    /\ wpc[w] = "lock"
    /\ wpc' = [wpc EXCEPT ![w] = "lockWait"]
    /\ UNCHANGED <<docker, changes, ctxCanceled, containers, addresses, ppc,
                   pList, provisions, sub, wList, rd, unit, latest>>

\* u.mu.Lock() returns and the first word of u.containers is written (the
\* words of the slice header in an order the build chooses).
StoreFirst(w) ==
    /\ wpc[w] = "lockWait"
    /\ CanLock
    /\ \/ /\ containers' = [containers EXCEPT !.arr = wList[w]]
          /\ wpc' = [wpc EXCEPT ![w] = "storeLen"]
       \/ /\ containers' = [containers EXCEPT !.len = Len(wList[w])]
          /\ wpc' = [wpc EXCEPT ![w] = "storeArr"]
    /\ UNCHANGED <<docker, changes, ctxCanceled, addresses, ppc, pList,
                   provisions, sub, wList, rd, unit, latest>>

\* Mutant of StoreSecond: the lock is released with one word written.
StoreSecond_HalfWrite(w) ==
    /\ wpc[w] \in {"storeLen", "storeArr"}
    /\ wpc' = [wpc EXCEPT ![w] = "select"]
    /\ UNCHANGED <<docker, changes, ctxCanceled, containers, addresses, ppc,
                   pList, provisions, sub, wList, rd, unit, latest>>

\* The other word of u.containers is written; u.mu.Unlock().
StoreSecond(w) ==
    /\ wpc[w] \in {"storeLen", "storeArr"}
    /\ containers' = (IF wpc[w] = "storeLen"
                      THEN [containers EXCEPT !.len = Len(wList[w])]
                      ELSE [containers EXCEPT !.arr = wList[w]])
    /\ wpc' = [wpc EXCEPT ![w] = "select"]
    /\ UNCHANGED <<docker, changes, ctxCanceled, addresses, ppc, pList,
                   provisions, sub, wList, rd, unit, latest>>

\* Mutant of Backoff: the watcher gives up after the wait.
Backoff_GiveUp(w) ==
    /\ wpc[w] = "backoff"
    /\ wpc' = [wpc EXCEPT ![w] = "done"]
    /\ UNCHANGED <<docker, changes, ctxCanceled, containers, addresses, ppc,
                   pList, provisions, sub, wList, rd, unit, latest>>

\* The select after the loop: <-ctx.Done() returns, the timer resubscribes.
Backoff(w) ==
    /\ wpc[w] = "backoff"
    /\ \/ /\ ctxCanceled
          /\ wpc' = [wpc EXCEPT ![w] = "done"]
       \/ wpc' = [wpc EXCEPT ![w] = "subscribe"]
    /\ UNCHANGED <<docker, changes, ctxCanceled, containers, addresses, ppc,
                   pList, provisions, sub, wList, rd, unit, latest>>

\* ----------------------------------------------------------- GetUpstreams

\* Element i of the slice a header h describes; past the listing's result
\* the slots hold the zero value.
ElemAt(h, i) == IF i <= Len(h.arr) THEN h.arr[i] ELSE ZeroContainer

\* The sequence of containers a loop over the header h iterates over.
RangeOf(h) == [i \in 1..h.len |-> ElemAt(h, i)]

\* u.mu.RLock(); the range expression u.containers is evaluated once.
\* GetUpstreams is called and finds u.mu.RLock() blocked by a writer.
GetUpstreamsCall(r, req) ==
    /\ rd[r].pc = "idle"
    /\ provisions > 0
    /\ ~CanRLock
    /\ rd' = [rd EXCEPT ![r] = [IdleReader EXCEPT !.pc = "rlock", !.req = req]]
    /\ UNCHANGED <<docker, changes, ctxCanceled, containers, addresses, ppc,
                   pList, provisions, wpc, sub, wList, unit, latest>>

\* u.mu.RLock() returns, at once or after the wait, and the range expression
\* u.containers is evaluated.
GetUpstreamsBegin(r, req) ==
    /\ \/ rd[r].pc = "idle"
       \/ rd[r].pc = "rlock" /\ rd[r].req = req
    /\ provisions > 0
    /\ CanRLock
    /\ rd' = [rd EXCEPT ![r] = [pc |-> "iter", req |-> req, hdr |-> containers,
                                i |-> 1, out |-> <<>>]]
    /\ UNCHANGED <<docker, changes, ctxCanceled, containers, addresses, ppc,
                   pList, provisions, wpc, sub, wList, unit, latest>>

\* One iteration of the loop, up to the return of toUpstream or, on a cache
\* miss of a container with a port and a network, up to addressesMu.Lock().
GetUpstreamsStep(r) ==
    /\ rd[r].pc = "iter"
    /\ rd[r].i <= rd[r].hdr.len
    /\ LET c == ElemAt(rd[r].hdr, rd[r].i)
       IN rd' = [rd EXCEPT ![r] =
            IF ~match(rd[r].req, c) THEN [@ EXCEPT !.i = @ + 1]
            ELSE IF HasKey(addresses, c.ID)
                 THEN [@ EXCEPT !.i = @ + 1,
                                !.out = Append(@, [idx |-> rd[r].i, dial |-> addresses[c.ID]])]
            ELSE IF missError(c) # "" THEN [@ EXCEPT !.i = @ + 1]
            ELSE [@ EXCEPT !.pc = "store"]]
    /\ UNCHANGED <<docker, changes, ctxCanceled, containers, addresses, ppc,
                   pList, provisions, wpc, sub, wList, unit, latest>>

\* The rest of toUpstream after a cache miss: the upstream is created from
\* the first network the loop yields and stored in the cache.
GetUpstreamsStore(r) ==
    /\ rd[r].pc = "store"
    /\ LET c == ElemAt(rd[r].hdr, rd[r].i)
       IN \E d \in missDials(c) :
            /\ addresses' = (c.ID :> d) @@ addresses
            /\ rd' = [rd EXCEPT ![r] =
                        [@ EXCEPT !.pc = "iter", !.i = @ + 1,
                                  !.out = Append(@, [idx |-> rd[r].i, dial |-> d])]]
    /\ UNCHANGED <<docker, changes, ctxCanceled, containers, ppc, pList,
                   provisions, wpc, sub, wList, unit, latest>>

\* return upstreams, nil; the deferred u.mu.RUnlock().
GetUpstreamsReturn(r) ==
    /\ rd[r].pc = "iter"
    /\ rd[r].i > rd[r].hdr.len
    /\ rd' = [rd EXCEPT ![r] = IdleReader]
    /\ UNCHANGED <<docker, changes, ctxCanceled, containers, addresses, ppc,
                   pList, provisions, wpc, sub, wList, unit, latest>>

\* ---------------------------------------------------------- specifications

Environment ==
    \/ \E id \in IDs, cfg \in Configs \cup {Removed} : DockerChange(id, cfg)
    \/ \E w \in Watchers : TransportError(w)
    \/ Cancel

Provision ==
    \/ ProvisionCall
    \/ ProvisionConnect
    \/ ProvisionList
    \/ ProvisionStoreFirst
    \/ ProvisionStoreSecond
    \/ ProvisionLaunch

keepUpdated(w) ==
    \/ Subscribe(w)
    \/ ReceiveMessage(w)
    \/ ReceiveError(w)
    \/ Relist(w)
    \/ RelistFailed(w)
    \/ LockCall(w)
    \/ StoreFirst(w)
    \/ StoreSecond(w)
    \/ Backoff(w)

GetUpstreams(r) ==
    \/ \E req \in Requests : GetUpstreamsBegin(r, req)
    \/ GetUpstreamsStep(r)
    \/ GetUpstreamsStore(r)
    \/ GetUpstreamsReturn(r)

\* The provider in service: one call of Provision, its watcher, and the
\* requests of one connection, one after the other.
Next ==
    \/ Environment
    \/ Provision
    \/ \E w \in Watchers : keepUpdated(w)
    \/ GetUpstreams(1)

Spec == Init /\ [][Next]_vars

\* Concurrent requests on a provisioned provider whose runtime is at rest:
\* the snapshot is the listing of any runtime state.
ConcInit ==
    /\ docker \in [IDs -> Configs \cup {NoContainer}]
    /\ changes = 0
    /\ ctxCanceled = FALSE
    /\ containers = Slice(ContainerList(docker))
    /\ addresses = EmptyMap
    /\ ppc = "ok"
    /\ pList = ContainerList(docker)
    /\ provisions = 1
    /\ wpc = [w \in Watchers |-> IF w = 1 THEN "subscribe" ELSE "none"]
    /\ sub = [w \in Watchers |-> NoSub]
    /\ wList = [w \in Watchers |-> <<>>]
    /\ rd = [r \in Readers |-> IdleReader]
    /\ unit = NoCall
    /\ latest = ContainerList(docker)

ConcNext == \E r \in Readers : GetUpstreams(r)

ConcSpec == ConcInit /\ [][ConcNext]_vars

\* Provision called again on a provider in service (no requests), with one
\* container in the runtime.
ReprovEnvironment ==
    \/ \E cfg \in {"web", Removed} : DockerChange("c1", cfg)
    \/ \E w \in Watchers : TransportError(w)
    \/ Cancel

ReprovNext ==
    \/ ReprovEnvironment
    \/ Provision
    \/ ProvisionAgain
    \/ \E w \in Watchers : keepUpdated(w)

ReprovSpec == Init /\ [][ReprovNext]_vars

\* The provider in service with calls that wait for the lock, for the
\* progress properties: one Provision, its watcher, concurrent GetUpstreams
\* calls, and a runtime with one container.
Blocked(r) == rd[r].pc = "rlock"

Acquire(r) == \E req \in Requests : Blocked(r) /\ GetUpstreamsBegin(r, req)

Serve(r) == GetUpstreamsStep(r) \/ GetUpstreamsStore(r) \/ GetUpstreamsReturn(r)

Replace(w) == LockCall(w) \/ StoreFirst(w) \/ StoreSecond(w)

LiveNext ==
    \/ ReprovEnvironment
    \/ Provision
    \/ keepUpdated(1)
    \/ \E r \in Readers : \E req \in Requests : GetUpstreamsCall(r, req)
    \/ \E r \in Readers : GetUpstreams(r)

\* Every goroutine that can run is scheduled: the watcher, whose calls into
\* the Docker client all return, and the calls that hold the read lock.
FairSpec ==
    /\ Init
    /\ [][LiveNext]_vars
    /\ WF_vars(keepUpdated(1))
    /\ \A r \in Readers : WF_vars(Serve(r)) /\ WF_vars(Acquire(r))

\* Only the steps that take, hold and release u.mu are scheduled: a listing
\* or a subscription may never return.
LockFairSpec ==
    /\ Init
    /\ [][LiveNext]_vars
    /\ WF_vars(Replace(1))
    /\ \A r \in Readers : WF_vars(Serve(r)) /\ WF_vars(Acquire(r))

\* ------------------------------------------- match and toUpstream, directly

Options(key, values) == {EmptyMap} \cup { key :> v : v \in values }

\* The label sets match is called with.
UnitLabels ==
    { e @@ h @@ p @@ q @@ o :
        e \in Options(LabelEnable, {"true", "false", "TRUE", ""}),
        h \in Options(LabelMatchHost, {<<"example", "com">>, <<"*", "com">>}),
        p \in Options(LabelMatchPath, {<<"api", "*">>, <<"web">>}),
        q \in Options(LabelUpstreamPort, {"8080"}),
        o \in Options(LabelOther, {"x"}) }

UnitRequests ==
    { [Host |-> h, Path |-> p] :
        h \in {<<"example", "com">>, <<"other", "com">>, <<"example", "org">>},
        p \in {<<"api">>, <<"api", "v1">>, <<"web">>} }

\* The containers toUpstream is called with.
UnitNetworks ==
    { b @@ o : b \in Options("bridge", {"", "10.0.0.5"}),
               o \in Options("overlay", {"", "10.0.0.6"}) }

UnitContainers ==
    { [ID |-> id, Labels |-> e @@ q, Networks |-> n] :
        id \in IDs,
        e \in {LabelEnable :> "true"},
        q \in Options(LabelUpstreamPort, {"8080", "9090"}),
        n \in UnitNetworks }

\* match(r, container) is called.
UnitMatch(r, labels) ==
    /\ unit.op = "none"
    /\ LET c == [ID |-> "c1", Labels |-> labels, Networks |-> Bridge("10.0.0.5")]
       IN unit' = [NoCall EXCEPT !.op = "match", !.c = c, !.r = r, !.res = match(r, c)]
    /\ UNCHANGED <<docker, changes, ctxCanceled, containers, addresses, ppc,
                   pList, provisions, wpc, sub, wList, rd, latest>>

\* Mutant of UnitToUpstream: a failed resolution is remembered.
UnitToUpstream_CachesFailure(c) ==
    /\ unit.op # "match"
    /\ \/ /\ HasKey(addresses, c.ID)
          /\ unit' = [NoCall EXCEPT !.op = "hit", !.c = c, !.up = Ok(addresses[c.ID])]
          /\ UNCHANGED addresses
       \/ /\ ~HasKey(addresses, c.ID)
          /\ missError(c) # ""
          /\ unit' = [NoCall EXCEPT !.op = "miss", !.c = c, !.up = Fail(missError(c))]
          /\ addresses' = (c.ID :> JoinHostPort("", "")) @@ addresses
       \/ /\ ~HasKey(addresses, c.ID)
          /\ missError(c) = ""
          /\ \E d \in missDials(c) :
                /\ addresses' = (c.ID :> d) @@ addresses
                /\ unit' = [NoCall EXCEPT !.op = "miss", !.c = c, !.up = Ok(d)]
    /\ UNCHANGED <<docker, changes, ctxCanceled, containers, ppc, pList,
                   provisions, wpc, sub, wList, rd, latest>>

\* toUpstream(container) is called and returns.
UnitToUpstream(c) ==
    /\ unit.op # "match"
    /\ \/ /\ HasKey(addresses, c.ID)
          /\ unit' = [NoCall EXCEPT !.op = "hit", !.c = c, !.up = Ok(addresses[c.ID])]
          /\ UNCHANGED addresses
       \/ /\ ~HasKey(addresses, c.ID)
          /\ missError(c) # ""
          /\ unit' = [NoCall EXCEPT !.op = "miss", !.c = c, !.up = Fail(missError(c))]
          /\ UNCHANGED addresses
       \/ /\ ~HasKey(addresses, c.ID)
          /\ missError(c) = ""
          /\ \E d \in missDials(c) :
                /\ addresses' = (c.ID :> d) @@ addresses
                /\ unit' = [NoCall EXCEPT !.op = "miss", !.c = c, !.up = Ok(d)]
    /\ UNCHANGED <<docker, changes, ctxCanceled, containers, ppc, pList,
                   provisions, wpc, sub, wList, rd, latest>>

UnitNext ==
    \/ \E r \in UnitRequests, labels \in UnitLabels : UnitMatch(r, labels)
    \/ \E c \in UnitContainers : UnitToUpstream(c)

\* match and toUpstream called directly, on every input of the sets above.
UnitSpec == Init /\ [][UnitNext]_vars

\* ------------------------------------------------------- claims, helpers

\* A GetUpstreams call is running (it holds the read lock).
Running(r) == rd[r].pc # "idle"

\* A GetUpstreams call is about to return rd[r].out.
Returning(r) == rd[r].pc = "iter" /\ rd[r].i > rd[r].hdr.len

\* The list a call returns: the dial addresses of its entries.
Dials(out) == [k \in 1..Len(out) |-> out[k].dial]

\* The container an entry of a call's result was resolved from.
EntryContainer(r, k) == ElemAt(rd[r].hdr, rd[r].out[k].idx)

\* Every result a listing call can return.
AllListings == { ContainerList(d) : d \in [IDs -> Configs \cup {NoContainer, Removed}] }

IDsOf(list) == { list[i].ID : i \in 1..Len(list) }

EnableIsTrue(c) == HasKey(c.Labels, LabelEnable) /\ c.Labels[LabelEnable] = "true"

\* ------------------------------------------------------------------- C1

\* C1: the sequence of containers a GetUpstreams call iterates over is
\* exactly the result of one listing call, its length included: never the
\* array of one listing with the length of another.
C1_AtomicSnapshot ==
    \A r \in Readers :
        Running(r) =>
            /\ rd[r].hdr.len = Len(rd[r].hdr.arr)
            /\ RangeOf(rd[r].hdr) \in AllListings

\* A call is under way while the watcher waits, with a listing of another
\* length, for the lock to replace the snapshot.
C1_Witness ==
    \E r \in Readers, w \in Watchers :
        /\ Running(r)
        /\ rd[r].i > 1
        /\ wpc[w] = "lockWait"
        /\ Len(wList[w]) # rd[r].hdr.len

\* ------------------------------------------------------------------- C2

\* The watcher waits for the next event on an open subscription that has
\* nothing to deliver: while the runtime does not change, nothing changes
\* the snapshot any more.
Quiescent ==
    /\ ~ctxCanceled
    /\ wpc[1] = "select"
    /\ sub[1].open
    /\ sub[1].msgs = 0
    /\ sub[1].err = "none"

\* C2: once the watcher has caught up with every event (the runtime's set has
\* stopped changing, the context is not canceled), the snapshot is the
\* runtime's set of labelled containers, whenever the changes happened.
C2_EventuallyConsistent ==
    Quiescent => containers = Slice(ContainerList(docker))

\* ------------------------------------------------------------------- C3

\* Resolution as the claim has it: a port label and an attachment with a
\* non-empty address.
ClaimResolves(c) ==
    /\ HasKey(c.Labels, LabelUpstreamPort)
    /\ \E n \in DOMAIN c.Networks : c.Networks[n] # ""

ScenarioOne(c) ==
    /\ c.Labels = (LabelEnable :> "true") @@ (LabelUpstreamPort :> "8080")
    /\ c.Networks = Bridge("10.0.0.5")

\* C3: the list GetUpstreams returns has, in snapshot order, one entry for
\* each container that matches the request and resolves, none for a
\* container without a port label or a usable address, and is
\* ["10.0.0.5:8080"] when the snapshot holds only the container of scenario 1.
C3_ResultIsMatchingResolved ==
    \A r \in Readers :
        Returning(r) =>
            /\ [k \in 1..Len(rd[r].out) |-> rd[r].out[k].idx]
                 = SelectSeq([i \in 1..rd[r].hdr.len |-> i],
                             LAMBDA i : /\ match(rd[r].req, ElemAt(rd[r].hdr, i))
                                        /\ ClaimResolves(ElemAt(rd[r].hdr, i)))
            /\ (rd[r].hdr.len = 1 /\ ScenarioOne(ElemAt(rd[r].hdr, 1)))
                 => Dials(rd[r].out) = <<JoinHostPort("10.0.0.5", "8080")>>

\* ------------------------------------------------------------------- C4

\* C4: match rejects, for every request, a container whose enable label is
\* absent or not "true", and no entry of a GetUpstreams result comes from
\* such a container, although the listing admits it into the snapshot.
C4_EnableGate ==
    /\ \A id \in IDs, cfg \in Configs, req \in Requests :
          ~EnableIsTrue(Container(id, cfg)) => ~match(req, Container(id, cfg))
    /\ \A r \in Readers :
          /\ (Running(r) /\ rd[r].i <= rd[r].hdr.len
                /\ ~EnableIsTrue(ElemAt(rd[r].hdr, rd[r].i)))
               => ~match(rd[r].req, ElemAt(rd[r].hdr, rd[r].i))
          /\ \A k \in 1..Len(rd[r].out) : EnableIsTrue(EntryContainer(r, k))

\* A call returns another container's address after it passed over a
\* container of the snapshot whose enable label is "false".
C4_Witness ==
    \E r \in Readers :
        /\ Returning(r)
        /\ Len(rd[r].out) > 0
        /\ \E i \in 1..rd[r].hdr.len :
              /\ HasKey(ElemAt(rd[r].hdr, i).Labels, LabelEnable)
              /\ ~EnableIsTrue(ElemAt(rd[r].hdr, i))

\* ------------------------------------------------------------------- C5

\* C5: for a container with enable="true", match is true exactly when every
\* registered matcher kind whose label is present accepts the request; an
\* absent matcher label and an unregistered key constrain nothing; with only
\* the host label "example.com" it is true exactly for that host.
C5_MatchSemantics ==
    (unit.op = "match" /\ EnableIsTrue(unit.c)) =>
        /\ unit.res <=>
              /\ HasKey(unit.c.Labels, LabelMatchHost)
                    => MatchHost(unit.c.Labels[LabelMatchHost], unit.r)
              /\ HasKey(unit.c.Labels, LabelMatchPath)
                    => MatchPath(unit.c.Labels[LabelMatchPath], unit.r)
        /\ (~HasKey(unit.c.Labels, LabelMatchHost) /\ ~HasKey(unit.c.Labels, LabelMatchPath))
              => unit.res
        /\ (HasKey(unit.c.Labels, LabelMatchHost) /\ ~HasKey(unit.c.Labels, LabelMatchPath)
              /\ unit.c.Labels[LabelMatchHost] = <<"example", "com">>)
              => (unit.res <=> unit.r.Host = <<"example", "com">>)

\* match accepted a request for a container that carries a host label, a
\* path label and an unregistered label.
C5_Witness ==
    /\ unit.op = "match"
    /\ unit.res
    /\ HasKey(unit.c.Labels, LabelMatchHost)
    /\ HasKey(unit.c.Labels, LabelMatchPath)
    /\ HasKey(unit.c.Labels, LabelOther)

\* ------------------------------------------------------------------- C6

\* C6: two calls of the resolver on records of the same identity that both
\* succeed return the same dial address, also when they run concurrently.
C6_SameTargetPerIdentity ==
    \A r1, r2 \in Readers :
        \A k1 \in 1..Len(rd[r1].out), k2 \in 1..Len(rd[r2].out) :
            EntryContainer(r1, k1).ID = EntryContainer(r2, k2).ID
                => rd[r1].out[k1].dial = rd[r2].out[k2].dial

\* ------------------------------------------------------------------- C7

\* C7: toUpstream returns the "missing port" error for a record without the
\* port label, and the "no address" error for a record with the port label
\* and no attachment with a non-empty address.
C7_ResolutionErrors ==
    unit.op \in {"hit", "miss"} =>
        /\ ~HasKey(unit.c.Labels, LabelUpstreamPort) => unit.up.err = ErrPort
        /\ (HasKey(unit.c.Labels, LabelUpstreamPort)
              /\ \A n \in DOMAIN unit.c.Networks : unit.c.Networks[n] = "")
             => unit.up.err = ErrAddress

\* ------------------------------------------------------------------- C8

\* C8: a running GetUpstreams call reads the installed snapshot, and every
\* entry of its result comes from a container of that snapshot: a container
\* absent from the installed snapshot is not returned, cached or not.
C8_RemovedNeverReturned ==
    \A r \in Readers :
        Running(r) =>
            /\ rd[r].hdr = containers
            /\ \A k \in 1..Len(rd[r].out) :
                  EntryContainer(r, k).ID \in IDsOf(containers.arr)

\* A call returns while the cache holds the address of a container that was
\* resolved before, was removed, and is no longer in the installed snapshot.
C8_Witness ==
    \E r \in Readers, id \in IDs :
        /\ Returning(r)
        /\ rd[r].hdr = containers
        /\ HasKey(addresses, id)
        /\ docker[id] = Removed
        /\ id \notin IDsOf(containers.arr)

\* ------------------------------------------------------------------- C9

\* C9: Provision returns nil with the snapshot equal to its initial listing
\* and launches the watcher in that step, not before; when it returns an
\* error no watcher runs and the snapshot is as it was.
C9_ProvisionOrdering ==
    /\ [](ppc # "ok" => \A w \in Watchers : wpc[w] = "none")
    /\ [](ppc = "err" => containers = NilSlice)
    /\ [][(ppc # "ok" /\ ppc' = "ok") =>
            /\ containers = Slice(pList)
            /\ containers' = containers
            /\ wpc'[1] = "subscribe"]_vars

\* Provision returned nil with a snapshot of two containers.
C9_Witness ==
    /\ ppc = "ok"
    /\ wpc[1] = "subscribe"
    /\ containers.len = 2

\* ------------------------------------------------------------------ C10

C11_TerminatesOnlyByCancel ==
    \A w \in Watchers : wpc[w] = "done" => ctxCanceled

C11_Witness ==
    /\ wpc[1] = "done"
    /\ ctxCanceled
    /\ sub[1].err = "none"

\* C12: once the provisioning context is canceled the watcher terminates,
\* whatever it was doing (waiting for an event, listing, waiting for the
\* lock, storing, backing off), and a terminated watcher stays terminated
\* and the snapshot is never written again.
C12_GuaranteedShutdown ==
    /\ ctxCanceled ~> (wpc[1] = "done")
    /\ [][wpc[1] = "done" => (wpc'[1] = "done" /\ containers' = containers)]_vars

C12_Witness ==
    /\ wpc[1] = "done"
    /\ ctxCanceled
    /\ \E r \in Readers : rd[r].pc = "iter" /\ rd[r].hdr = containers

\* C13: an error of the subscription that is not a cancellation sends the
\* watcher to the backoff; with the context live the backoff is followed by
\* a fresh subscription, which the watcher then waits on; a listing that
\* succeeded after an event ends up as the snapshot. Nothing counts the
\* errors, so this holds after every one of them.
C13_Resubscribes ==
    /\ [][(wpc[1] = "select" /\ sub[1].err = "transport"
             /\ wpc'[1] \notin {"select", "list"}) => wpc'[1] = "backoff"]_vars
    /\ [][(wpc[1] = "backoff" /\ ~ctxCanceled /\ wpc'[1] # "backoff")
             => wpc'[1] = "subscribe"]_vars
    /\ (wpc[1] = "backoff" /\ ~ctxCanceled)
          ~> (ctxCanceled \/ (wpc[1] = "select" /\ sub[1].open))
    /\ (wpc[1] = "lock") ~> (wpc[1] = "select" /\ containers = Slice(wList[1]))

C13_Witness ==
    /\ wpc[1] = "backoff"
    /\ ~ctxCanceled
    /\ ~sub[1].open
    /\ sub[1].err = "none"

\* C14: when the listing after an event fails, the watcher goes back to the
\* select loop on the same subscription, without backoff and without a new
\* subscription, and the snapshot is what it was before the event, so calls
\* of GetUpstreams still read the listing stored before.
C14_RelistFailureKeepsSnapshot ==
    /\ [][\A w \in Watchers :
            wpc[w] \in {"list", "listFailed"} => containers' = containers]_vars
    /\ [][\A w \in Watchers :
            (wpc[w] = "listFailed" /\ wpc'[w] # "listFailed")
                => (wpc'[w] = "select" /\ sub'[w] = sub[w])]_vars

C14_Witness ==
    /\ wpc[1] = "listFailed"
    /\ ~ctxCanceled
    /\ containers.len > 0
    /\ containers.arr # ContainerList(docker)
    /\ rd[1].pc = "iter"
    /\ rd[1].hdr = containers

Installing(w) == wpc[w] \in {"lock", "lockWait", "storeLen", "storeArr"}

C16_InsertOnce ==
    /\ [][\A r \in Readers :
            (rd[r].pc = "store" /\ rd'[r].pc # "store")
                => ~HasKey(addresses, ElemAt(rd[r].hdr, rd[r].i).ID)]_vars
    /\ [][\A id \in DOMAIN addresses :
            HasKey(addresses', id) /\ addresses'[id] = addresses[id]]_vars

\* C17: a cache miss that succeeds returns the port label joined to a
\* non-empty address of one of the record's attachments, and no entry of the
\* cache has an empty host part.
C17_SkipsEmptyAddress ==
    /\ \A id \in DOMAIN addresses : addresses[id].host # ""
    /\ (unit.op = "miss" /\ unit.up.err = "") =>
            /\ unit.up.dial.host # ""
            /\ \E n \in DOMAIN unit.c.Networks :
                  unit.up.dial = JoinHostPort(unit.c.Networks[n],
                                              unit.c.Labels[LabelUpstreamPort])

\* C18: a call of toUpstream that returns an error leaves the cache as it
\* was, so the identity of a failed call has no cache entry; a call for an
\* identity without a cache entry resolves again, and it succeeds when the
\* record has the port label and an attachment with a non-empty address.
C18_FailuresNotCached ==
    /\ [][unit'.up.err # "" => addresses' = addresses]_vars
    /\ [](unit.up.err # "" => ~HasKey(addresses, unit.c.ID))
    /\ [][(~HasKey(addresses, unit'.c.ID) /\ unit'.op # "match")
             => unit'.op = "miss"]_vars
    /\ []((unit.op = "miss" /\ ClaimResolves(unit.c)) => unit.up.err = "")

C18_Witness ==
    /\ unit.op = "miss"
    /\ unit.up.err = ErrAddress
    /\ unit.c.ID = "c1"
    /\ DOMAIN addresses = {"c2"}

\* C19: the exclusive lock of the snapshot is held only during the
\* assignment and excludes the calls that read; the address cache changes
\* only in a step of a call that holds the shared lock; every GetUpstreams
\* call, blocked ones included, returns, and every listing result the watcher
\* has obtained gets stored, also when no other listing or subscription call
\* ever returns.
C19_NoBlocking ==
    /\ [](WriterHolds => ~ReaderHolds)
    /\ [][addresses' # addresses => \E r \in Readers : rd[r].pc = "store"]_vars
    /\ \A r \in Readers : (rd[r].pc # "idle") ~> (rd[r].pc = "idle")
    /\ (wpc[1] \in {"lock", "lockWait"}) ~> (wpc[1] = "select")

C19_Witness ==
    /\ wpc[1] = "lockWait"
    /\ rd[1].pc = "rlock"
    /\ rd[2].pc = "store"

====
